---------------------------- MODULE Spec2Model ----------------------------
(***************************************************************************)
(* A model of the ai-labeler GitHub Action (src/src/ai_labeler).            *)
(*                                                                         *)
(* The label registry reconciler (github.py), the configuration loaders    *)
(* (ai.py, label_workflow.py), the decision step (ai.py) and the run       *)
(* (label_workflow.py) are modelled as operators computed the way the      *)
(* code computes them, and as actions over the process state: the remote   *)
(* repository's labels, the module-level label cache and the record of     *)
(* the last call.                                                          *)
(***************************************************************************)
EXTENDS Integers, Sequences, FiniteSets, TLC

VARIABLES
    remote,               \* the repository's labels as repo.get_labels() lists them
    label_cache,          \* github._label_cache: repository name -> list[Label]
    config,               \* config.labels of the Config handed to the reconciler
    include_repo_labels,  \* the keyword argument of get_available_labels_from_config
    outcome,              \* how the last call ended: "idle", "returned", "raised"
    op,                   \* the operation the last call was
    repo_labels,          \* what get_available_labels returned to the last call
    created,              \* the create_label requests of the last call, in order
    failed,               \* which of them raised (0: none)
    labels,               \* the list the last call returned
    env,                  \* os.environ: GITHUB_WORKSPACE, INPUT_CONFIG-PATH
    fs,                   \* the files on disk, by path
    args,                 \* the arguments of the last call
    loaded,               \* the Config the last Config.load returned
    catalog,              \* the labels handed to the decision step (all_labels)
    answer,               \* what the model answered to the decision task
    context,              \* the instructions and files given to the agent
    decision,             \* the list labeling_workflow returned
    items,                \* the repository's items: number -> issue or pull request
    calls,                \* the calls of the run to the GitHub interface, in order
    raised_at,            \* the stage at which the run raised ("" when it did not)
    applied,              \* what add_to_labels was called with
    output,               \* the lines appended to the GITHUB_OUTPUT file
    printed,              \* what apply_labels printed on a dry run
    returned,             \* what the last call of get_event_number returned
    body,                 \* the text parse_github_links is given
    numbers,              \* the item numbers parsed or asked for
    linked                \* the list fetch_linked_items returned

vars == <<remote, label_cache, config, include_repo_labels, outcome, op,
          repo_labels, created, failed, labels, env, fs, args, loaded,
          catalog, answer, context, decision,
          items, calls, raised_at, applied, output, printed, returned,
          body, numbers, linked>>

\* The variables the reconciler reads and writes.
reconcilerVars == <<remote, label_cache, config, include_repo_labels,
                    repo_labels, created, failed, labels>>

\* The variables the configuration loaders read and write.
loaderVars == <<env, fs, args, loaded>>

\* The variables the decision step writes.
decisionVars == <<catalog, answer, context, decision>>

\* The variables only the run reads and writes.
runVars == <<items, calls, raised_at, applied, output, printed, returned>>

\* The variables of the linked-items functions.
linkVars == <<body, numbers, linked>>

----------------------------------------------------------------------------
(* Bounds of the model. *)

MaxRepoLabels == 2

MaxConfigLabels == 2

MaxCatalogLabels == 2

MaxAnswer == 2

\* The most context files a config declares.
MaxContextFiles == 2

\* The most characters of a text given to parse_github_links.
MaxText == 5

\* The most numbers fetch_linked_items is asked for.
MaxNumbers == 3

----------------------------------------------------------------------------
(* Python values. *)

\* Python's None (Optional[str] fields of Label and LabelConfig).
None == "<None>"

\* Truthiness of an Optional[str]: None and "" are falsy.
Truthy(x) == x # None /\ x # ""

\* Python's `a or b`.
PyOr(a, b) == IF Truthy(a) THEN a ELSE b

\* str.lower() on the label names of the model ("bug", "Bug", "docs", "api"):
\* "bug" and "Bug" differ only in letter case.
Lower(s) == CASE s = "Bug" -> "bug" [] OTHER -> s

\* GITHUB_REPOSITORY, the key of the label cache.
GITHUB_REPOSITORY == "owner/repo"

----------------------------------------------------------------------------
(* Records. *)

\* github.Label
Label(name, description, instructions) ==
    [name |-> name, description |-> description, instructions |-> instructions]

\* config_parser.LabelConfig
LabelConfig(name, description, instructions) ==
    [name |-> name, description |-> description, instructions |-> instructions]

\* What repo.get_labels() can list: name and description of a label.
RemoteLabels ==
    { [name |-> "bug",  description |-> "repo desc"],
      [name |-> "Bug",  description |-> "repo desc"],
      [name |-> "docs", description |-> "repo desc"],
      [name |-> "api",  description |-> None] }

\* The LabelConfig entries a config can declare.
LabelConfigs ==
    { LabelConfig("bug",  None,       None),
      LabelConfig("bug",  "cfg desc", "cfg instr"),
      LabelConfig("Bug",  "cfg desc", "cfg instr"),
      LabelConfig("Bug",  "",         None),
      LabelConfig("docs", "cfg desc", None),
      LabelConfig("docs", None,       "cfg instr"),
      LabelConfig("api",  "",         "cfg instr"),
      LabelConfig("api",  None,       None) }

\* Sequences over S of length at most n.
SeqsUpTo(S, n) == UNION { [1..k -> S] : k \in 0..n }

\* How many times a call occurs in the call log.
Count(log, call) == Cardinality({ i \in DOMAIN log : log[i] = call })

\* The set of elements of a sequence.
Range(s) == { s[i] : i \in DOMAIN s }

\* [f(x) for x in s]
Names(s) == [i \in DOMAIN s |-> s[i].name]

\* {label.name.lower() for label in s}
LowerNames(s) == { Lower(s[i].name) : i \in DOMAIN s }

\* GitHub keeps label names unique regardless of letter case.
CaseDistinct(s) ==
    \A i, j \in DOMAIN s : Lower(s[i].name) = Lower(s[j].name) => i = j

\* The states the repository's label list can be in.
RemoteStates == { s \in SeqsUpTo(RemoteLabels, MaxRepoLabels) : CaseDistinct(s) }

\* The configs a caller can pass (a name may be declared more than once).
Configs == SeqsUpTo(LabelConfigs, MaxConfigLabels)

----------------------------------------------------------------------------
(* github.get_available_labels *)

\* [Label(name=label.name, description=label.description) for label in labels]
FetchLabels(listed) ==
    [i \in DOMAIN listed |-> Label(listed[i].name, listed[i].description, None)]

\* get_available_labels: the list returned, the cache afterwards, and whether the
\* list returned is the cached list object itself (a hit returns the cached
\* list, a miss returns a copy of it).
GetAvailableLabels(cache, listed) ==
    IF GITHUB_REPOSITORY \in DOMAIN cache
    THEN [ret |-> cache[GITHUB_REPOSITORY], cache |-> cache, aliased |-> TRUE]
    ELSE [ret |-> FetchLabels(listed),
          cache |-> (GITHUB_REPOSITORY :> FetchLabels(listed)),
          aliased |-> FALSE]

----------------------------------------------------------------------------
(* github.get_available_labels_from_config *)

\* The Label appended for a config label the repository lacks.
NewLabel(cfg) == Label(cfg.name, PyOr(cfg.description, ""), cfg.instructions)

\* The arguments of the create_label call for a config label.
CreateCall(cfg) == [name |-> cfg.name, description |-> PyOr(cfg.description, "")]

\* A faulty variant of NeedsCreation: the repository's names are compared as written.
NeedsCreationExact(cfg, repo_names) == cfg.name \notin repo_names

\* `cfg.name.lower() not in repo_names`
NeedsCreation(cfg, repo_names) == Lower(cfg.name) \notin repo_names

\* A faulty variant of CreateMissing: the new labels are put in front of the list.
RECURSIVE CreateMissingPrepend(_, _, _, _, _)
CreateMissingPrepend(cfgs, repo_names, working, requests, failAt) ==
    IF cfgs = <<>>
    THEN [repo_labels |-> working, created |-> requests, raised |-> FALSE, failed |-> 0]
    ELSE IF NeedsCreation(Head(cfgs), repo_names)
         THEN IF Len(requests) + 1 = failAt
              THEN [repo_labels |-> working,
                    created |-> Append(requests, CreateCall(Head(cfgs))),
                    raised |-> TRUE, failed |-> failAt]
              ELSE CreateMissingPrepend(Tail(cfgs), repo_names,
                                        <<NewLabel(Head(cfgs))>> \o working,
                                        Append(requests, CreateCall(Head(cfgs))), failAt)
         ELSE CreateMissingPrepend(Tail(cfgs), repo_names, working, requests, failAt)

\* The loop `for cfg in config.labels` (create any missing labels). repo_names
\* is computed once, before the loop. The failAt-th create_label call raises
\* (0: none does); create_label catches nothing, so the exception leaves the
\* loop and the function, after the appends made so far.
RECURSIVE CreateMissing(_, _, _, _, _)
CreateMissing(cfgs, repo_names, working, requests, failAt) ==
    IF cfgs = <<>>
    THEN [repo_labels |-> working, created |-> requests, raised |-> FALSE, failed |-> 0]
    ELSE IF NeedsCreation(Head(cfgs), repo_names)
         THEN IF Len(requests) + 1 = failAt
              THEN [repo_labels |-> working,
                    created |-> Append(requests, CreateCall(Head(cfgs))),
                    raised |-> TRUE, failed |-> failAt]
              ELSE CreateMissing(Tail(cfgs), repo_names,
                                 Append(working, NewLabel(Head(cfgs))),
                                 Append(requests, CreateCall(Head(cfgs))), failAt)
         ELSE CreateMissing(Tail(cfgs), repo_names, working, requests, failAt)

\* {cfg.name for cfg in config.labels}
ConfigNames(cfgs) == { cfgs[i].name : i \in DOMAIN cfgs }

\* A faulty variant of FilterLabels: the filter is not applied.
FilterLabelsOff(working, cfgs, include) == working

\* `if not include_repo_labels:` keep the labels whose name is a config name.
FilterLabels(working, cfgs, include) ==
    IF include
    THEN working
    ELSE SelectSeq(working, LAMBDA l : l.name \in ConfigNames(cfgs))

\* A faulty variant of ConfigMap: the first declaration of a name wins.
ConfigMapFirstWins(cfgs) ==
    [n \in ConfigNames(cfgs) |->
        cfgs[CHOOSE i \in DOMAIN cfgs :
                /\ cfgs[i].name = n
                /\ \A j \in DOMAIN cfgs : cfgs[j].name = n => i <= j]]

\* {cfg.name: cfg for cfg in config.labels}: the last declaration of a name wins.
ConfigMap(cfgs) ==
    [n \in ConfigNames(cfgs) |->
        cfgs[CHOOSE i \in DOMAIN cfgs :
                /\ cfgs[i].name = n
                /\ \A j \in DOMAIN cfgs : cfgs[j].name = n => j <= i]]

\* The body of the loop `for label in repo_labels` (config overrides).
Enhance(label, cfgs) ==
    IF label.name \in DOMAIN ConfigMap(cfgs)
    THEN Label(label.name,
               PyOr(ConfigMap(cfgs)[label.name].description, label.description),
               ConfigMap(cfgs)[label.name].instructions)
    ELSE label

\* get_available_labels_from_config as a function of the cache, the labels the
\* repository lists, the config, the flag and the failing create_label call:
\* what get_available_labels returned (seen), the create_label requests, whether
\* an exception left the function, the list returned and the cache afterwards.
\* On a cache hit repo_labels is the cached list itself, so the appends of the
\* creation loop are appends to the cache entry.
GetAvailableLabelsFromConfig(cache, listed, cfgs, include, failAt) ==
    LET got == GetAvailableLabels(cache, listed)
        made == CreateMissing(cfgs, LowerNames(got.ret), got.ret, <<>>, failAt)
        kept == FilterLabels(made.repo_labels, cfgs, include)
    IN  [seen |-> got.ret,
         created |-> made.created,
         raised |-> made.raised,
         failed |-> made.failed,
         labels |-> IF made.raised
                    THEN <<>>
                    ELSE [i \in DOMAIN kept |-> Enhance(kept[i], cfgs)],
         cache |-> IF got.aliased
                   THEN [got.cache EXCEPT ![GITHUB_REPOSITORY] = made.repo_labels]
                   ELSE got.cache]

\* github.create_label on the repository: the label list after the create
\* requests that succeeded, in order. A request that succeeds for a name the
\* repository already has (in any letter case) leaves the list as it is.
RECURSIVE RemoteAfter(_, _)
RemoteAfter(listed, requests) ==
    IF requests = <<>>
    THEN listed
    ELSE RemoteAfter(IF Lower(Head(requests).name) \in LowerNames(listed)
                     THEN listed
                     ELSE Append(listed, Head(requests)),
                     Tail(requests))

\* The create requests that succeeded: all of them, or all but the last.
Succeeded(res) ==
    IF res.raised THEN SubSeq(res.created, 1, Len(res.created) - 1) ELSE res.created

----------------------------------------------------------------------------
(* Paths, the environment and the file system. *)

\* A path: absolute or relative, and its components.
Path(abs, parts) == [abs |-> abs, parts |-> parts]

\* The empty string as a path.
EmptyPath == Path(FALSE, <<>>)

\* A str | None argument that is None.
NoArg == [abs |-> FALSE, parts |-> <<"<None>">>]

\* An environment variable that is not set.
Unset == [abs |-> FALSE, parts |-> <<"<unset>">>]

\* `Path(w) / p`: an absolute right operand replaces the left one.
PathJoin(w, p) == IF p.abs THEN p ELSE Path(w.abs, w.parts \o p.parts)

\* os.getenv(key, default)
Getenv(e, key, default) == IF e[key] = Unset THEN default ELSE e[key]

\* `arg or fallback` for a str | None argument.
ArgOr(arg, fallback) == IF arg = NoArg \/ arg = EmptyPath THEN fallback ELSE arg

\* ".github/ai-labeler.yml"
DefaultConfigPath == Path(FALSE, <<".github", "ai-labeler.yml">>)

\* A file that does not exist, and a file with the given text.
NoFile == [exists |-> FALSE, text |-> ""]
File(text) == [exists |-> TRUE, text |-> text]

----------------------------------------------------------------------------
(* YAML documents. *)

\* A label entry that is a bare string.
StrEntry(name) == [kind |-> "str", name |-> name, pairs |-> <<>>]

\* A label entry that is a mapping: its key/value pairs in document order.
MapEntry(pairs) == [kind |-> "map", name |-> "", pairs |-> pairs]

\* The values of a mapping entry: null, a string, a properties mapping.
NullValue == [t |-> "null", s |-> "", description |-> None, instructions |-> None]
StrValue(s) == [t |-> "str", s |-> s, description |-> None, instructions |-> None]
Props(description, instructions) ==
    [t |-> "dict", s |-> "", description |-> description, instructions |-> instructions]

\* A document: whether it is null (an empty file), the top-level keys it has
\* and their values.
Doc(keys, instructions, include, entries, files) ==
    [null |-> FALSE, keys |-> keys, instructions |-> instructions,
     include_repo_labels |-> include, labels |-> entries, context_files |-> files]

NullDoc == [null |-> TRUE, keys |-> {}, instructions |-> "",
            include_repo_labels |-> TRUE, labels |-> <<>>, context_files |-> <<>>]

\* The texts a config file of the model can have, and what yaml.safe_load
\* makes of each.
YamlTexts == {"policy.yml", "config-only.yml", "named.yml", "empty.yml"}

YamlSafeLoad(text) ==
    CASE text = "policy.yml" ->
            Doc({"instructions", "labels", "context_files"}, "policy instr", TRUE,
                <<StrEntry("docs"),
                  MapEntry(<<[key |-> "Bug", value |-> Props("cfg desc", "cfg instr")]>>),
                  MapEntry(<<[key |-> "api", value |-> NullValue]>>)>>,
                <<[abs |-> FALSE, parts |-> <<"CONTRIBUTING.md">>]>>)
      [] text = "config-only.yml" ->
            Doc({"instructions", "include_repo_labels", "labels"}, "config-only instr",
                FALSE, <<StrEntry("docs")>>, <<>>)
      [] text = "named.yml" ->
            Doc({"labels"}, "", TRUE,
                <<MapEntry(<<[key |-> "name", value |-> StrValue("bug")],
                             [key |-> "description", value |-> StrValue("cfg desc")]>>)>>,
                <<>>)
      [] OTHER -> NullDoc

\* data.get(key, default)
DocGet(data, key, default) == IF key \in data.keys THEN data[key] ELSE default

----------------------------------------------------------------------------
(* Config.load of ai.py and of label_workflow.py *)

\* ai.Config / label_workflow.Config
Config(instructions, include, cfgs, files) ==
    [instructions |-> instructions, include_repo_labels |-> include,
     labels |-> cfgs, context_files |-> files]

\* A faulty variant of DefaultConfig: repository labels are excluded by default.
DefaultConfigExcludes == Config("", FALSE, <<>>, <<>>)

\* The `except FileNotFoundError` branch: the default config.
DefaultConfig == Config("", TRUE, <<>>, <<>>)

\* The value of key k in a mapping entry's pairs, [t |-> "absent"] without it.
PairsGet(pairs, k) ==
    IF \E i \in DOMAIN pairs : pairs[i].key = k
    THEN pairs[CHOOSE i \in DOMAIN pairs : pairs[i].key = k].value
    ELSE [t |-> "absent", s |-> "", description |-> None, instructions |-> None]

\* A scalar value as Optional[str].
Scalar(v) == IF v.t = "str" THEN v.s ELSE None

\* ai.py: `name = item.pop("name")`, then LabelConfig(name=name, **item).
\* Without a "name" key pop raises KeyError; a key other than description and
\* instructions is an unexpected keyword argument.
LabelFromEntryAi(item) ==
    IF item.kind = "str"
    THEN [raised |-> FALSE, label |-> LabelConfig(item.name, None, None)]
    ELSE IF \/ PairsGet(item.pairs, "name").t = "absent"
            \/ \E i \in DOMAIN item.pairs :
                  item.pairs[i].key \notin {"name", "description", "instructions"}
         THEN [raised |-> TRUE, label |-> LabelConfig("", None, None)]
         ELSE [raised |-> FALSE,
               label |-> LabelConfig(Scalar(PairsGet(item.pairs, "name")),
                                     Scalar(PairsGet(item.pairs, "description")),
                                     Scalar(PairsGet(item.pairs, "instructions")))]

\* label_workflow.py: `name, props = next(iter(item.items()))`; a null props is
\* {}; props.get(...) of a props that is no mapping raises, and so does next()
\* of an empty mapping.
LabelFromEntryWorkflow(item) ==
    IF item.kind = "str"
    THEN [raised |-> FALSE, label |-> LabelConfig(item.name, None, None)]
    ELSE IF item.pairs = <<>> \/ item.pairs[1].value.t = "str"
         THEN [raised |-> TRUE, label |-> LabelConfig("", None, None)]
         ELSE [raised |-> FALSE,
               label |-> LabelConfig(item.pairs[1].key,
                                     item.pairs[1].value.description,
                                     item.pairs[1].value.instructions)]

\* The loop `for item in labels_data` with one of the two entry parsers.
ParseLabels(entries, workflow) ==
    LET one(i) == IF workflow
                  THEN LabelFromEntryWorkflow(entries[i])
                  ELSE LabelFromEntryAi(entries[i])
    IN  [raised |-> \E i \in DOMAIN entries : one(i).raised,
         labels |-> [i \in DOMAIN entries |-> one(i).label]]

\* The body of Config.load from open(full_path) on: FileNotFoundError gives
\* the default config, any other exception leaves the function.
LoadFrom(files, full_path, workflow) ==
    IF ~files[full_path].exists
    THEN [raised |-> FALSE, config |-> DefaultConfig]
    ELSE LET data == YamlSafeLoad(files[full_path].text)
             parsed == ParseLabels(DocGet(data, "labels", <<>>), workflow)
         IN  IF data.null \/ parsed.raised
             THEN [raised |-> TRUE, config |-> DefaultConfig]
             ELSE [raised |-> FALSE,
                   config |-> Config(DocGet(data, "instructions", ""),
                                     DocGet(data, "include_repo_labels", TRUE),
                                     parsed.labels,
                                     DocGet(data, "context_files", <<>>))]

\* The path ai.Config.load() opens.
ConfigPathAi(e) ==
    PathJoin(Getenv(e, "GITHUB_WORKSPACE", EmptyPath),
             Getenv(e, "INPUT_CONFIG-PATH", DefaultConfigPath))

\* The path label_workflow.Config.load(workspace_path, config_path) opens.
ConfigPathWorkflow(e, workspace_path, config_path) ==
    PathJoin(ArgOr(workspace_path, Getenv(e, "GITHUB_WORKSPACE", EmptyPath)),
             ArgOr(config_path, Getenv(e, "INPUT_CONFIG-PATH", DefaultConfigPath)))

\* ai.Config.load()
ConfigLoadAi(e, files) == LoadFrom(files, ConfigPathAi(e), FALSE)

\* label_workflow.Config.load(workspace_path=..., config_path=...)
ConfigLoadWorkflow(e, files, workspace_path, config_path) ==
    LoadFrom(files, ConfigPathWorkflow(e, workspace_path, config_path), TRUE)

----------------------------------------------------------------------------
(* Config.load_context_files of ai.py, label_workflow.py and config_parser.py *)

\* A faulty variant of ContextFilesUnder: the loop stops at the first declared
\* path that does not exist.
RECURSIVE ContextFilesUntilMissing(_, _, _)
ContextFilesUntilMissing(files, root, declared) ==
    IF declared = <<>> \/ ~files[PathJoin(root, Head(declared))].exists
    THEN <<>>
    ELSE (Head(declared) :> files[PathJoin(root, Head(declared))].text)
            @@ ContextFilesUntilMissing(files, root, Tail(declared))

\* The loop `for file_path in self.context_files or []`: each declared path
\* is opened under the root; FileNotFoundError is caught and the path skipped;
\* the text read is stored under the declared path.
RECURSIVE ContextFilesUnder(_, _, _)
ContextFilesUnder(files, root, declared) ==
    IF declared = <<>>
    THEN <<>>
    ELSE IF files[PathJoin(root, Head(declared))].exists
         THEN ContextFilesUnder(files, root, Tail(declared))
                 @@ (Head(declared) :> files[PathJoin(root, Head(declared))].text)
         ELSE ContextFilesUnder(files, root, Tail(declared))

\* ai.py and label_workflow.py: `if not workspace_path:` falls back to
\* os.getenv("GITHUB_WORKSPACE", "").
LoadContextFilesWorkspace(e, files, cfg, workspace_path) ==
    [raised |-> FALSE,
     context |-> ContextFilesUnder(
                    files,
                    ArgOr(workspace_path, Getenv(e, "GITHUB_WORKSPACE", EmptyPath)),
                    cfg.context_files)]

\* config_parser.py: `repo_root_path or os.getenv("GITHUB_WORKSPACE")`, and
\* ValueError when that is None.
LoadContextFilesParser(e, files, cfg, repo_root_path) ==
    LET root == ArgOr(repo_root_path, Getenv(e, "GITHUB_WORKSPACE", NoArg))
    IN  IF root = NoArg
        THEN [raised |-> TRUE, context |-> <<>>]
        ELSE [raised |-> FALSE,
              context |-> ContextFilesUnder(files, root, cfg.context_files)]

----------------------------------------------------------------------------
(* ai.labeling_workflow *)

\* ai.Config.load_context_files() with no argument: the declared paths that
\* exist under GITHUB_WORKSPACE, each keyed by the declared path.
LoadContextFiles(e, files, cfg) ==
    LET ws == Getenv(e, "GITHUB_WORKSPACE", EmptyPath)
        found == { cfg.context_files[i] : i \in DOMAIN cfg.context_files }
    IN  [p \in { q \in found : files[PathJoin(ws, q)].exists } |->
            files[PathJoin(ws, p)].text]

\* Enum("LabelChoice", {label.name: label.name for label in labels}, type=str):
\* the values of its members.
LabelChoice(all_labels) == { all_labels[i].name : i \in DOMAIN all_labels }

\* A faulty variant of Validates: the result type is list[str].
ValidatesAnyString(raw, all_labels) == TRUE

\* result_type=list[LabelChoice]: an answer is a result of the task only when
\* each of its elements is the value of a member of LabelChoice.
Validates(raw, all_labels) == \A i \in DOMAIN raw : raw[i] \in LabelChoice(all_labels)

\* What the agent is given when no decision was asked for.
NoContext == [instructions |-> "", additional_files |-> <<>>]

\* labeling_workflow(item, labels) for a model that answers ans (ans.failed: the
\* call to the provider failed; ans.raw: the names it answered): whether an
\* exception left the function, whether the model was asked, what it was
\* given and the list returned.
LabelingWorkflow(e, files, all_labels, ans) ==
    LET got == ConfigLoadAi(e, files)
    IN  IF got.raised
        THEN [raised |-> TRUE, asked |-> FALSE, context |-> NoContext, labels |-> <<>>]
        ELSE [raised |-> ans.failed \/ ~Validates(ans.raw, all_labels),
              asked |-> TRUE,
              context |-> [instructions |-> got.config.instructions,
                           additional_files |-> LoadContextFiles(e, files, got.config)],
              labels |-> IF ans.failed \/ ~Validates(ans.raw, all_labels)
                         THEN <<>>
                         ELSE ans.raw]

\* Instructions that forbid applying a label automatically.
NeverApply == "Never apply this label automatically!"

\* The labels a catalog of the decision step is made of.
CatalogLabels ==
    { Label("bug", "repo desc", None),
      Label("Bug", "cfg desc", "cfg instr"),
      Label("docs", None, "cfg instr"),
      Label("do-not-merge", "", NeverApply) }

\* The names a model can answer: the label names and one it makes up.
AnswerNames == {"bug", "Bug", "docs", "do-not-merge", "invented"}

\* The answers of a model: a failed call, or at most n names.
Answers(n) ==
    {[failed |-> TRUE, raw |-> <<>>]}
        \cup { [failed |-> FALSE, raw |-> r] : r \in SeqsUpTo(AnswerNames, n) }

\* The decision step has not been called.
DecisionIdle ==
    /\ catalog = <<>>
    /\ answer = [failed |-> FALSE, raw |-> <<>>]
    /\ context = NoContext
    /\ decision = <<>>

----------------------------------------------------------------------------
(* github.get_event_number and github.apply_labels *)

\* An item number, and the None a lookup can give instead of one.
Number(n) == [none |-> FALSE, n |-> n]
NoneNumber == [none |-> TRUE, n |-> 0]

\* Truthiness of an int | None.
NumberTruthy(x) == ~x.none /\ x.n # 0

\* `a or b` for int | None.
NumberOr(a, b) == IF NumberTruthy(a) THEN a ELSE b

\* int(s) on the values INPUT_EVENT-NUMBER takes in the model.
ParseInt(s) == CASE s = "7" -> 7 [] s = "8" -> 8 [] OTHER -> 0

\* Where GITHUB_EVENT_PATH points when it is set.
EventPath == Path(TRUE, <<"event.json">>)

\* json.load of the event files of the model: the number at top level, under
\* pull_request and under issue.
JsonLoad(text) ==
    CASE text = "pull_request event" ->
            [number |-> Number(7), pull_request |-> Number(7), issue |-> NoneNumber]
      [] text = "issue event" ->
            [number |-> NoneNumber, pull_request |-> NoneNumber, issue |-> Number(7)]
      [] text = "pull_request_review event" ->
            [number |-> NoneNumber, pull_request |-> Number(8), issue |-> NoneNumber]
      [] OTHER ->
            [number |-> NoneNumber, pull_request |-> NoneNumber, issue |-> NoneNumber]

\* get_event_number(): INPUT_EVENT-NUMBER if set, else the number of the event
\* payload (which is None when the payload has none), else ValueError. A
\* GITHUB_EVENT_PATH that names no file makes open() raise.
GetEventNumber(e, files) ==
    IF e["INPUT_EVENT-NUMBER"] # ""
    THEN [raised |-> FALSE, number |-> Number(ParseInt(e["INPUT_EVENT-NUMBER"]))]
    ELSE IF e["GITHUB_EVENT_PATH"] # Unset /\ e["GITHUB_EVENT_PATH"] # EmptyPath
         THEN IF ~files[e["GITHUB_EVENT_PATH"]].exists
              THEN [raised |-> TRUE, number |-> NoneNumber]
              ELSE [raised |-> FALSE,
                    number |->
                       NumberOr(NumberOr(
                           JsonLoad(files[e["GITHUB_EVENT_PATH"]].text).number,
                           JsonLoad(files[e["GITHUB_EVENT_PATH"]].text).pull_request),
                           JsonLoad(files[e["GITHUB_EVENT_PATH"]].text).issue)]
         ELSE [raised |-> TRUE, number |-> NoneNumber]

\* repo.get_issue(number) finds an item: number is an int the repository has.
HasItem(its, number) ==
    ~number.none /\ number.n \in DOMAIN its /\ its[number.n] # "none"

\* No label was applied.
NotApplied == [done |-> FALSE, number |-> NoneNumber, labels |-> <<>>]

\* The line a dry run prints: "Dry run: Would apply labels {labels} to #{number}".
DryRunLine(chosen, number) == [labels |-> chosen, number |-> number]

\* A faulty variant of ApplyLabels: the dry-run flag is not looked at.
ApplyLabelsIgnoringDryRun(e, files, its, chosen, dry_run) ==
    LET got == GetEventNumber(e, files)
    IN  IF got.raised
        THEN [raised |-> TRUE, calls |-> <<"get_repo">>, applied |-> NotApplied,
              printed |-> <<>>]
        ELSE IF ~HasItem(its, got.number)
        THEN [raised |-> TRUE, calls |-> <<"get_repo", "get_issue">>,
              applied |-> NotApplied, printed |-> <<>>]
        ELSE [raised |-> FALSE,
              calls |-> <<"get_repo", "get_issue", "add_to_labels">>,
              applied |-> [done |-> TRUE, number |-> got.number, labels |-> chosen],
              printed |-> <<>>]

\* apply_labels(gh, labels, dry_run): the item number comes from
\* get_event_number(); a dry run prints and returns; otherwise the item is
\* fetched and add_to_labels is called once with all the labels.
ApplyLabels(e, files, its, chosen, dry_run) ==
    LET got == GetEventNumber(e, files)
    IN  IF got.raised
        THEN [raised |-> TRUE, calls |-> <<"get_repo">>, applied |-> NotApplied,
              printed |-> <<>>]
        ELSE IF dry_run
        THEN [raised |-> FALSE, calls |-> <<"get_repo">>, applied |-> NotApplied,
              printed |-> <<DryRunLine(chosen, got.number)>>]
        ELSE IF ~HasItem(its, got.number)
        THEN [raised |-> TRUE, calls |-> <<"get_repo", "get_issue">>,
              applied |-> NotApplied, printed |-> <<>>]
        ELSE [raised |-> FALSE,
              calls |-> <<"get_repo", "get_issue", "add_to_labels">>,
              applied |-> [done |-> TRUE, number |-> got.number, labels |-> chosen],
              printed |-> <<>>]

----------------------------------------------------------------------------
(* github.parse_github_links *)

\* The characters of a text: whitespace, "#", "/", a letter and two digits.
Chars == {" ", "#", "/", "a", "1", "2"}

\* \s, \d and [\w-] on the characters of the model.
IsSpace(c) == c = " "
IsDigit(c) == c \in {"1", "2"}
IsWord(c) == c \in {"a", "1", "2", "_", "-"}

\* The value of a digit.
DigitValue(c) == CASE c = "1" -> 1 [] c = "2" -> 2 [] OTHER -> 0

\* Where the longest run of digits (of [\w-] characters when word is set)
\* starting at i ends: i - 1 when there is none. Both quantifiers are greedy
\* and what follows them cannot start with a character of the class, so a
\* match always takes the whole run.
RunEnd(s, i, word) ==
    CHOOSE j \in (i - 1)..Len(s) :
        /\ \A k \in i..j : IF word THEN IsWord(s[k]) ELSE IsDigit(s[k])
        /\ j = Len(s) \/ ~(IF word THEN IsWord(s[j + 1]) ELSE IsDigit(s[j + 1]))

\* int(m.group(1)) for the digits s[i..j].
RECURSIVE ToInt(_, _, _)
ToInt(s, i, j) == IF j < i THEN 0 ELSE 10 * ToInt(s, i, j - 1) + DigitValue(s[j])

\* No match.
NoMatch == [ok |-> FALSE, number |-> 0, end |-> 0]

\* A match of "#(\d+)" at position h, followed by (?:\s|$) when delimited: the
\* number and the position of the last character consumed.
MatchNumber(s, h, delimited) ==
    LET d == RunEnd(s, h + 1, FALSE)
    IN  IF h > Len(s) \/ s[h] # "#" \/ d < h + 1
        THEN NoMatch
        ELSE IF ~delimited
        THEN [ok |-> TRUE, number |-> ToInt(s, h + 1, d), end |-> d]
        ELSE IF d = Len(s)
        THEN [ok |-> TRUE, number |-> ToInt(s, h + 1, d), end |-> d]
        ELSE IF IsSpace(s[d + 1])
        THEN [ok |-> TRUE, number |-> ToInt(s, h + 1, d), end |-> d + 1]
        ELSE NoMatch

\* A match of r"(?:^|\s)#(\d+)(?:\s|$)" starting at position p.
MatchBasic(s, p) ==
    IF p = 1 /\ MatchNumber(s, 1, TRUE).ok
    THEN MatchNumber(s, 1, TRUE)
    ELSE IF IsSpace(s[p])
    THEN MatchNumber(s, p + 1, TRUE)
    ELSE NoMatch

\* A match of r"(?:[\w-]+/)?[\w-]+#(\d+)" starting at position p.
MatchRepo(s, p) ==
    LET t == RunEnd(s, p, TRUE)
        u == RunEnd(s, t + 2, TRUE)
    IN  IF t < p \/ t = Len(s)
        THEN NoMatch
        ELSE IF s[t + 1] = "/" /\ u >= t + 2 /\ MatchNumber(s, u + 1, FALSE).ok
        THEN MatchNumber(s, u + 1, FALSE)
        ELSE MatchNumber(s, t + 1, FALSE)

\* One of the two patterns at position p.
MatchAt(s, p, basic) == IF basic THEN MatchBasic(s, p) ELSE MatchRepo(s, p)

\* re.finditer from position from on: the leftmost match, then the search
\* goes on after the last character that match consumed.
RECURSIVE FindIter(_, _, _)
FindIter(s, from, basic) ==
    LET starts == { p \in from..Len(s) : MatchAt(s, p, basic).ok }
        first == CHOOSE p \in starts : \A q \in starts : p <= q
    IN  IF starts = {}
        THEN {}
        ELSE {MatchAt(s, first, basic).number}
                \cup FindIter(s, MatchAt(s, first, basic).end + 1, basic)

\* sorted(numbers)
RECURSIVE Sorted(_)
Sorted(S) ==
    IF S = {}
    THEN <<>>
    ELSE LET m == CHOOSE x \in S : \A y \in S : x <= y
         IN  <<m>> \o Sorted(S \ {m})

\* parse_github_links(text)
ParseGithubLinks(s) == Sorted(FindIter(s, 1, TRUE) \cup FindIter(s, 1, FALSE))

----------------------------------------------------------------------------
(* github.fetch_linked_items *)

\* LinkedItem(number=..., type=...) of an item of the repository.
LinkedItem(number, type) == [number |-> number, type |-> type]

\* repo.get_issue(number) and the construction of the LinkedItem succeed: the
\* repository has the item and the request at this position does not fail.
FetchSucceeds(its, nums, failing, i) ==
    /\ nums[i] \in DOMAIN its
    /\ its[nums[i]] # "none"
    /\ i \notin failing

\* A faulty variant of FetchLinkedItems: no try/except around the fetch, the
\* first failure leaves the function.
RECURSIVE FetchLinkedItemsAborting(_, _, _, _)
FetchLinkedItemsAborting(its, nums, failing, i) ==
    IF i > Len(nums)
    THEN [raised |-> FALSE, linked_items |-> <<>>]
    ELSE IF ~FetchSucceeds(its, nums, failing, i)
    THEN [raised |-> TRUE, linked_items |-> <<>>]
    ELSE [raised |-> FetchLinkedItemsAborting(its, nums, failing, i + 1).raised,
          linked_items |->
             <<LinkedItem(nums[i], its[nums[i]])>>
                \o FetchLinkedItemsAborting(its, nums, failing, i + 1).linked_items]

\* fetch_linked_items(gh, numbers) from position i of the loop on: each number
\* is fetched inside try/except Exception; a failure is printed and the loop
\* goes on.
RECURSIVE FetchLinkedItems(_, _, _, _)
FetchLinkedItems(its, nums, failing, i) ==
    IF i > Len(nums)
    THEN [raised |-> FALSE, linked_items |-> <<>>]
    ELSE [raised |-> FALSE,
          linked_items |->
             (IF FetchSucceeds(its, nums, failing, i)
              THEN <<LinkedItem(nums[i], its[nums[i]])>>
              ELSE <<>>)
                \o FetchLinkedItems(its, nums, failing, i + 1).linked_items]

----------------------------------------------------------------------------
(* label_workflow.run_label_workflow *)

\* The external calls get_available_labels_from_config makes: a cache miss
\* looks the repository up and lists its labels; each create_label looks the
\* repository up and creates the label.
RECURSIVE CreateCalls(_)
CreateCalls(n) ==
    IF n = 0 THEN <<>> ELSE <<"get_repo", "create_label">> \o CreateCalls(n - 1)

ReconcilerCalls(cache, res) ==
    (IF GITHUB_REPOSITORY \in DOMAIN cache THEN <<>> ELSE <<"get_repo", "get_labels">>)
        \o CreateCalls(Len(res.created))

\* The include_repo_labels the run calls the reconciler with:
\* get_available_labels_from_config(gh, ai_config) leaves the keyword at its
\* default, True.
RunIncludeRepoLabels(cfg) == TRUE

\* A faulty variant of RunRaisedAt: a failure of the decision is swallowed and
\* the run goes on with no labels.
RunRaisedAtDecisionSwallowed(a, its, num, cfg, rec, dec, app) ==
    IF ~NumberTruthy(a.event_number) /\ num.raised THEN "number"
    ELSE IF cfg.raised THEN "config"
    ELSE IF rec.raised THEN "labels"
    ELSE IF ~HasItem(its, NumberOr(a.event_number, num.number)) THEN "fetch"
    ELSE IF its[NumberOr(a.event_number, num.number).n] = "pull_request" THEN "item"
    ELSE IF app.raised THEN "apply"
    ELSE ""

\* The stage at which run_label_workflow raised, "" when it returned. The
\* stages in order: the item number, Config.load, the reconciler, the fetch of
\* the item, the construction of the item (PullRequest is built without its
\* required field files), the decision, apply_labels.
RunRaisedAt(a, its, num, cfg, rec, dec, app) ==
    IF ~NumberTruthy(a.event_number) /\ num.raised THEN "number"
    ELSE IF cfg.raised THEN "config"
    ELSE IF rec.raised THEN "labels"
    ELSE IF ~HasItem(its, NumberOr(a.event_number, num.number)) THEN "fetch"
    ELSE IF its[NumberOr(a.event_number, num.number).n] = "pull_request" THEN "item"
    ELSE IF dec.raised THEN "decision"
    ELSE IF app.raised THEN "apply"
    ELSE ""

\* The stages a run goes through, in order.
RunStages == <<"number", "config", "labels", "fetch", "item", "decision", "apply", "">>

\* Whether a run that raised at stage `at` got past stage `stage`.
Passed(at, stage) ==
    LET pos(x) == CHOOSE i \in DOMAIN RunStages : RunStages[i] = x
    IN  pos(stage) < pos(at)

\* The external calls of a run, in order.
RunCalls(at, cache, its, number, rec, app) ==
    <<"get_repo">>
        \o (IF Passed(at, "config") THEN ReconcilerCalls(cache, rec) ELSE <<>>)
        \o (IF Passed(at, "labels") THEN <<"get_issue">> ELSE <<>>)
        \o (IF Passed(at, "fetch") /\ its[number.n] = "pull_request"
            THEN <<"get_pull", "get_files">> ELSE <<>>)
        \o (IF Passed(at, "decision") THEN app.calls ELSE <<>>)

\* Neither parse_github_links nor fetch_linked_items has been called.
LinksIdle ==
    /\ body = <<>>
    /\ numbers = <<>>
    /\ linked = <<>>

\* No run has been made; the repository has no items.
RunIdle ==
    /\ items = [n \in {7, 8} |-> "none"]
    /\ calls = <<>>
    /\ raised_at = ""
    /\ applied = NotApplied
    /\ output = <<>>
    /\ printed = <<>>
    /\ returned = NoneNumber

----------------------------------------------------------------------------
(* The configuration loaders as a state machine. *)

\* The values GITHUB_WORKSPACE and the workspace argument take.
Workspaces == {Path(TRUE, <<"ws">>)}

\* The values INPUT_CONFIG-PATH and the config path argument take.
ConfigPaths == {Path(FALSE, <<"custom.yml">>)}

\* The paths a config file is looked up at.
ConfigFilePaths ==
    { PathJoin(w, p) : w \in Workspaces \cup {EmptyPath},
                       p \in ConfigPaths \cup {DefaultConfigPath} }

\* os.environ with the given values of the four variables the code reads.
Environment(workspace, config_path, event_number, event_path) ==
    [k \in {"GITHUB_WORKSPACE", "INPUT_CONFIG-PATH", "INPUT_EVENT-NUMBER",
             "GITHUB_EVENT_PATH"} |->
        CASE k = "GITHUB_WORKSPACE" -> workspace
          [] k = "INPUT_CONFIG-PATH" -> config_path
          [] k = "INPUT_EVENT-NUMBER" -> event_number
          [] OTHER -> event_path]

\* The environments of the loaders: no event.
Environments ==
    { Environment(w, p, "", Unset) :
         w \in Workspaces \cup {Unset}, p \in ConfigPaths \cup {Unset} }

\* The environment with none of the variables set.
EmptyEnvironment == Environment(Unset, Unset, "", Unset)

\* The context file the configs of the model declare, and where it is looked up.
ContextFile == Path(FALSE, <<"CONTRIBUTING.md">>)

\* A second file a config declares.
StyleFile == Path(FALSE, <<"docs", "STYLE.md">>)

\* The context files a config of the model declares.
DeclaredContextFiles == {ContextFile, StyleFile}

ContextFilePaths ==
    { PathJoin(w, f) : w \in Workspaces \cup {EmptyPath}, f \in DeclaredContextFiles }

\* Every path of the model.
AllPaths == ConfigFilePaths \cup ContextFilePaths \cup {EventPath}

\* A disk with no file.
NoFiles == [p \in AllPaths |-> NoFile]

\* The file systems of the loaders: at each config path no file or a config file.
FileSystems ==
    { f @@ NoFiles :
         f \in [ConfigFilePaths -> {NoFile} \cup { File(t) : t \in YamlTexts }] }

\* The arguments of a call that takes none.
NoArgs == [workspace_path |-> NoArg, config_path |-> NoArg]

\* No loader has been called; the environment names no config.
LoaderIdle ==
    /\ env = EmptyEnvironment
    /\ fs = NoFiles
    /\ args = NoArgs
    /\ loaded = DefaultConfig

InitLoad ==
    /\ env \in Environments
    /\ fs \in FileSystems
    /\ args = NoArgs
    /\ loaded = DefaultConfig
    /\ outcome = "idle"
    /\ op = "none"
    /\ remote = <<>>
    /\ label_cache = <<>>
    /\ config = <<>>
    /\ include_repo_labels = TRUE
    /\ repo_labels = <<>>
    /\ created = <<>>
    /\ failed = 0
    /\ labels = <<>>
    /\ DecisionIdle
    /\ RunIdle
    /\ LinksIdle

\* A call of ai.Config.load().
CallConfigLoadAi ==
    \E res \in {ConfigLoadAi(env, fs)} :
        /\ op' = "ai.Config.load"
        /\ args' = NoArgs
        /\ outcome' = IF res.raised THEN "raised" ELSE "returned"
        /\ loaded' = res.config
        /\ UNCHANGED <<env, fs, reconcilerVars, decisionVars, runVars, linkVars>>

\* A call of label_workflow.Config.load(workspace_path=w, config_path=p).
CallConfigLoadWorkflow ==
    \E w \in Workspaces \cup {NoArg}, p \in ConfigPaths \cup {NoArg} :
        \E res \in {ConfigLoadWorkflow(env, fs, w, p)} :
            /\ op' = "label_workflow.Config.load"
            /\ args' = [workspace_path |-> w, config_path |-> p]
            /\ outcome' = IF res.raised THEN "raised" ELSE "returned"
            /\ loaded' = res.config
            /\ UNCHANGED <<env, fs, reconcilerVars, decisionVars, runVars, linkVars>>

NextLoad == CallConfigLoadAi \/ CallConfigLoadWorkflow

SpecLoad == InitLoad /\ [][NextLoad]_vars

----------------------------------------------------------------------------
(* Config.load_context_files as a state machine. *)

\* The text of the file at a path, when there is one.
ContextText(p) ==
    CASE p = Path(FALSE, <<"CONTRIBUTING.md">>) -> "guidelines"
      [] p = Path(FALSE, <<"docs", "STYLE.md">>) -> "style"
      [] p = Path(TRUE, <<"ws", "CONTRIBUTING.md">>) -> "ws guidelines"
      [] OTHER -> "ws style"

\* The file systems of load_context_files: each context file present or not.
ContextFileSystems ==
    { [p \in AllPaths |-> IF p \in present THEN File(ContextText(p)) ELSE NoFile] :
         present \in SUBSET ContextFilePaths }

\* The environments of load_context_files: GITHUB_WORKSPACE unset, empty or set.
ContextEnvironments ==
    { Environment(w, Unset, "", Unset) : w \in Workspaces \cup {Unset, EmptyPath} }

\* The root arguments of load_context_files: None, "" or a directory.
RootArgs == Workspaces \cup {NoArg, EmptyPath}

InitContext ==
    /\ env \in ContextEnvironments
    /\ fs \in ContextFileSystems
    /\ loaded \in { Config("", TRUE, <<>>, d) :
                       d \in SeqsUpTo(DeclaredContextFiles, MaxContextFiles) }
    /\ args = NoArgs
    /\ outcome = "idle"
    /\ op = "none"
    /\ remote = <<>>
    /\ label_cache = <<>>
    /\ config = <<>>
    /\ include_repo_labels = TRUE
    /\ repo_labels = <<>>
    /\ created = <<>>
    /\ failed = 0
    /\ labels = <<>>
    /\ DecisionIdle
    /\ RunIdle
    /\ LinksIdle

\* A call of load_context_files(workspace_path=w) of ai.py or label_workflow.py
\* on the config `loaded`.
CallLoadContextFilesWorkspace ==
    \E w \in RootArgs, module \in {"ai", "label_workflow"} :
        \E res \in {LoadContextFilesWorkspace(env, fs, loaded, w)} :
            /\ op' = module \o ".Config.load_context_files"
            /\ args' = [workspace_path |-> w, config_path |-> NoArg]
            /\ outcome' = IF res.raised THEN "raised" ELSE "returned"
            /\ context' = [instructions |-> "", additional_files |-> res.context]
            /\ UNCHANGED <<env, fs, loaded, catalog, answer, decision,
                           reconcilerVars, runVars, linkVars>>

\* A call of load_context_files(repo_root_path=w) of config_parser.py.
CallLoadContextFilesParser ==
    \E w \in RootArgs :
        \E res \in {LoadContextFilesParser(env, fs, loaded, w)} :
            /\ op' = "config_parser.Config.load_context_files"
            /\ args' = [workspace_path |-> w, config_path |-> NoArg]
            /\ outcome' = IF res.raised THEN "raised" ELSE "returned"
            /\ context' = [instructions |-> "", additional_files |-> res.context]
            /\ UNCHANGED <<env, fs, loaded, catalog, answer, decision,
                           reconcilerVars, runVars, linkVars>>

NextContext == CallLoadContextFilesWorkspace \/ CallLoadContextFilesParser

SpecContext == InitContext /\ [][NextContext]_vars

----------------------------------------------------------------------------
(* The decision step as a state machine. *)

\* The file systems of the decision step: no config file, one that declares
\* bare names, or one that declares mappings, at the default path; the
\* context file present or not.
DecisionFileSystems ==
    { [p \in AllPaths |->
          IF p = DefaultConfigPath THEN c ELSE IF p = ContextFile THEN x ELSE NoFile] :
         c \in {NoFile, File("config-only.yml"), File("policy.yml")},
         x \in {NoFile, File("guidelines")} }

InitDecide ==
    /\ catalog \in SeqsUpTo(CatalogLabels, MaxCatalogLabels)
    /\ answer = [failed |-> FALSE, raw |-> <<>>]
    /\ context = NoContext
    /\ decision = <<>>
    /\ env = EmptyEnvironment
    /\ fs \in DecisionFileSystems
    /\ args = NoArgs
    /\ loaded = DefaultConfig
    /\ outcome = "idle"
    /\ op = "none"
    /\ remote = <<>>
    /\ label_cache = <<>>
    /\ config = <<>>
    /\ include_repo_labels = TRUE
    /\ repo_labels = <<>>
    /\ created = <<>>
    /\ failed = 0
    /\ labels = <<>>
    /\ RunIdle
    /\ LinksIdle

\* A call of labeling_workflow(item, labels=catalog).
CallLabelingWorkflow ==
    \E ans \in Answers(MaxAnswer) :
        \E res \in {LabelingWorkflow(env, fs, catalog, ans)} :
            /\ op' = "labeling_workflow"
            /\ outcome' = IF res.raised THEN "raised" ELSE "returned"
            /\ answer' = IF res.asked THEN ans ELSE [failed |-> FALSE, raw |-> <<>>]
            /\ context' = res.context
            /\ decision' = res.labels
            /\ UNCHANGED <<catalog, reconcilerVars, loaderVars, runVars, linkVars>>

NextDecide == CallLabelingWorkflow

SpecDecide == InitDecide /\ [][NextDecide]_vars

----------------------------------------------------------------------------
(* The reconciler as a state machine: calls made in one process. *)

InitReconcile ==
    /\ remote \in RemoteStates
    /\ label_cache = <<>>
    /\ config \in Configs
    /\ include_repo_labels \in BOOLEAN
    /\ outcome = "idle"
    /\ op = "none"
    /\ repo_labels = <<>>
    /\ created = <<>>
    /\ failed = 0
    /\ labels = <<>>
    /\ LoaderIdle
    /\ DecisionIdle
    /\ RunIdle
    /\ LinksIdle

\* A call of get_available_labels_from_config(gh, config, include_repo_labels=...).
CallGetAvailableLabelsFromConfig ==
    \E failAt \in 0..Len(config) :
        \E res \in {GetAvailableLabelsFromConfig(label_cache, remote, config,
                                                include_repo_labels, failAt)} :
            /\ op' = "get_available_labels_from_config"
            /\ outcome' = IF res.raised THEN "raised" ELSE "returned"
            /\ repo_labels' = res.seen
            /\ created' = res.created
            /\ failed' = res.failed
            /\ labels' = res.labels
            /\ label_cache' = res.cache
            /\ remote' = RemoteAfter(remote, Succeeded(res))
            /\ UNCHANGED <<config, include_repo_labels, loaderVars, decisionVars, runVars, linkVars>>

\* A call of get_available_labels(gh) by another caller.
CallGetAvailableLabels ==
    \E got \in {GetAvailableLabels(label_cache, remote)} :
        /\ op' = "get_available_labels"
        /\ outcome' = "returned"
        /\ repo_labels' = got.ret
        /\ created' = <<>>
        /\ failed' = 0
        /\ labels' = got.ret
        /\ label_cache' = got.cache
        /\ UNCHANGED <<remote, config, include_repo_labels, loaderVars, decisionVars, runVars, linkVars>>

\* _label_cache.clear()
ClearLabelCache ==
    /\ label_cache # <<>>
    /\ label_cache' = <<>>
    /\ UNCHANGED <<remote, config, include_repo_labels, outcome, op,
                   repo_labels, created, failed, labels, loaderVars, decisionVars, runVars, linkVars>>

NextReconcile ==
    \/ CallGetAvailableLabelsFromConfig
    \/ CallGetAvailableLabels
    \/ ClearLabelCache

SpecReconcile == InitReconcile /\ [][NextReconcile]_vars

----------------------------------------------------------------------------
(* The run as a state machine: one run_label_workflow in a fresh process. *)

\* The environments of a run: the config path and the event set or not.
RunEnvironments ==
    { Environment(Unset, p, n, x) :
         p \in ConfigPaths \cup {Unset}, n \in {"", "7"}, x \in {Unset, EventPath} }

\* The file systems of a run: config files at the default and at the custom
\* path, and the event payload.
RunFileSystems ==
    { [p \in AllPaths |->
          CASE p = DefaultConfigPath -> d
            [] p \in ConfigPaths -> c
            [] p = EventPath -> x
            [] OTHER -> NoFile] :
         d \in {NoFile, File("config-only.yml"), File("policy.yml")},
         c \in {NoFile, File("config-only.yml")},
         x \in {NoFile, File("pull_request event"), File("issue event"),
                File("push event")} }

\* The label lists of the repository a run starts from.
RunRemoteStates ==
    { <<>>,
      <<[name |-> "bug", description |-> "repo desc"]>>,
      <<[name |-> "docs", description |-> "repo desc"],
        [name |-> "Bug", description |-> "repo desc"]>> }

\* The items of the repository: #7 is an issue, a pull request or missing,
\* #8 is an issue.
RunItems ==
    { [n \in {7, 8} |-> IF n = 7 THEN k ELSE "issue"] :
         k \in {"none", "issue", "pull_request"} }

\* The keyword arguments of run_label_workflow.
RunArgs ==
    [event_number : {NoneNumber, Number(8)},
     config_path : ConfigPaths \cup {NoArg},
     github_workspace : {NoArg},
     dry_run : BOOLEAN,
     github_output : {NoArg, Path(TRUE, <<"github_output">>)}]

\* The answers of the model in a run.
RunAnswers ==
    { [failed |-> TRUE, raw |-> <<>>],
      [failed |-> FALSE, raw |-> <<>>],
      [failed |-> FALSE, raw |-> <<"docs">>],
      [failed |-> FALSE, raw |-> <<"bug", "docs">>],
      [failed |-> FALSE, raw |-> <<"invented">>] }

\* The line written to the GITHUB_OUTPUT file: labels=<json.dumps(labels)>.
OutputLine(chosen) == [key |-> "labels", json |-> chosen]

InitRun ==
    /\ env \in RunEnvironments
    /\ fs \in RunFileSystems
    /\ remote \in RunRemoteStates
    /\ items \in RunItems
    /\ label_cache = <<>>
    /\ config = <<>>
    /\ include_repo_labels = TRUE
    /\ outcome = "idle"
    /\ op = "none"
    /\ repo_labels = <<>>
    /\ created = <<>>
    /\ failed = 0
    /\ labels = <<>>
    /\ args = NoArgs
    /\ loaded = DefaultConfig
    /\ DecisionIdle
    /\ calls = <<>>
    /\ raised_at = ""
    /\ applied = NotApplied
    /\ output = <<>>
    /\ printed = <<>>
    /\ returned = NoneNumber
    /\ LinksIdle

\* run_label_workflow(**a): the repository lookup, the item number, the config,
\* the reconciler, the item, the decision, apply_labels and the output line.
\* Each stage runs only when the ones before it did not raise.
RunLabelWorkflow ==
    /\ op = "none"
    /\ \E a \in RunArgs, ans \in RunAnswers :
         \E num \in {GetEventNumber(env, fs)} :
         \E cfg \in {ConfigLoadWorkflow(env, fs, a.github_workspace, a.config_path)} :
         \E failAt \in 0..Len(cfg.config.labels) :
         \E rec \in {GetAvailableLabelsFromConfig(label_cache, remote, cfg.config.labels,
                                                  RunIncludeRepoLabels(cfg.config), failAt)} :
         \E dec \in {LabelingWorkflow(env, fs, rec.labels, ans)} :
         \E app \in {ApplyLabels(env, fs, items, dec.labels, a.dry_run)} :
         \E at \in {RunRaisedAt(a, items, num, cfg, rec, dec, app)} :
            /\ failAt > 0 => rec.raised
            /\ op' = "run_label_workflow"
            /\ args' = a
            /\ raised_at' = at
            /\ outcome' = IF at = "" THEN "returned" ELSE "raised"
            /\ loaded' = IF Passed(at, "config") THEN cfg.config ELSE DefaultConfig
            /\ config' = IF Passed(at, "config") THEN cfg.config.labels ELSE <<>>
            /\ include_repo_labels' = RunIncludeRepoLabels(cfg.config)
            /\ label_cache' = IF Passed(at, "config") THEN rec.cache ELSE label_cache
            /\ remote' = IF Passed(at, "config")
                         THEN RemoteAfter(remote, Succeeded(rec))
                         ELSE remote
            /\ repo_labels' = IF Passed(at, "config") THEN rec.seen ELSE <<>>
            /\ created' = IF Passed(at, "config") THEN rec.created ELSE <<>>
            /\ failed' = IF Passed(at, "config") THEN rec.failed ELSE 0
            /\ catalog' = IF Passed(at, "item") THEN rec.labels ELSE <<>>
            /\ answer' = IF Passed(at, "item") /\ dec.asked
                         THEN ans
                         ELSE [failed |-> FALSE, raw |-> <<>>]
            /\ context' = IF Passed(at, "item") THEN dec.context ELSE NoContext
            /\ decision' = IF Passed(at, "item") THEN dec.labels ELSE <<>>
            /\ applied' = IF Passed(at, "decision") THEN app.applied ELSE NotApplied
            /\ printed' = IF Passed(at, "decision") THEN app.printed ELSE <<>>
            /\ returned' = IF Passed(at, "decision") \/ ~NumberTruthy(a.event_number)
                           THEN num.number
                           ELSE NoneNumber
            /\ output' = IF at = "" /\ a.github_output # NoArg
                         THEN <<OutputLine(dec.labels)>>
                         ELSE <<>>
            /\ labels' = IF at = "" THEN dec.labels ELSE <<>>
            /\ calls' = RunCalls(at, label_cache, items,
                                 NumberOr(a.event_number, num.number), rec, app)
            /\ UNCHANGED <<env, fs, items, linkVars>>

NextRun == RunLabelWorkflow

SpecRun == InitRun /\ [][NextRun]_vars

----------------------------------------------------------------------------
(* apply_labels as a state machine. *)

\* The environments of apply_labels: the event number given or not, the event
\* payload named or not.
ApplyEnvironments ==
    { Environment(Unset, Unset, n, x) : n \in {"", "7", "8"}, x \in {Unset, EventPath} }

\* The file systems of apply_labels: the event payload.
ApplyFileSystems ==
    { [p \in AllPaths |-> IF p = EventPath THEN x ELSE NoFile] :
         x \in {NoFile, File("issue event"), File("push event")} }

\* The lists of chosen labels apply_labels is called with.
ChosenLists == SeqsUpTo({"bug", "docs", "api"}, MaxAnswer)

InitApply ==
    /\ env \in ApplyEnvironments
    /\ fs \in ApplyFileSystems
    /\ items \in RunItems
    /\ decision \in ChosenLists
    /\ catalog = <<>>
    /\ answer = [failed |-> FALSE, raw |-> <<>>]
    /\ context = NoContext
    /\ args = NoArgs
    /\ loaded = DefaultConfig
    /\ outcome = "idle"
    /\ op = "none"
    /\ remote = <<>>
    /\ label_cache = <<>>
    /\ config = <<>>
    /\ include_repo_labels = TRUE
    /\ repo_labels = <<>>
    /\ created = <<>>
    /\ failed = 0
    /\ labels = <<>>
    /\ calls = <<>>
    /\ raised_at = ""
    /\ applied = NotApplied
    /\ output = <<>>
    /\ printed = <<>>
    /\ returned = NoneNumber
    /\ LinksIdle

\* A call of apply_labels(gh, decision, dry_run=d).
CallApplyLabels ==
    /\ op = "none"
    /\ \E d \in BOOLEAN :
         \E res \in {ApplyLabels(env, fs, items, decision, d)} :
            /\ op' = "apply_labels"
            /\ args' = [dry_run |-> d]
            /\ outcome' = IF res.raised THEN "raised" ELSE "returned"
            /\ calls' = res.calls
            /\ applied' = res.applied
            /\ printed' = res.printed
            /\ returned' = GetEventNumber(env, fs).number
            /\ UNCHANGED <<env, fs, loaded, items, raised_at, output,
                           reconcilerVars, decisionVars, linkVars>>

NextApply == CallApplyLabels

SpecApply == InitApply /\ [][NextApply]_vars

----------------------------------------------------------------------------
(* get_event_number as a state machine. *)

\* The environments of get_event_number: INPUT_EVENT-NUMBER unset or empty, or
\* a number; GITHUB_EVENT_PATH unset, empty, or the path of the payload.
NumberEnvironments ==
    { Environment(Unset, Unset, n, x) :
         n \in {"", "0", "7", "8"}, x \in {Unset, EmptyPath, EventPath} }

\* The file systems of get_event_number: the event payload.
NumberFileSystems ==
    { [p \in AllPaths |-> IF p = EventPath THEN x ELSE NoFile] :
         x \in {NoFile, File("pull_request event"), File("issue event"),
                File("pull_request_review event"), File("push event")} }

InitNumber ==
    /\ env \in NumberEnvironments
    /\ fs \in NumberFileSystems
    /\ args = NoArgs
    /\ loaded = DefaultConfig
    /\ outcome = "idle"
    /\ op = "none"
    /\ remote = <<>>
    /\ label_cache = <<>>
    /\ config = <<>>
    /\ include_repo_labels = TRUE
    /\ repo_labels = <<>>
    /\ created = <<>>
    /\ failed = 0
    /\ labels = <<>>
    /\ DecisionIdle
    /\ RunIdle
    /\ LinksIdle

\* A call of get_event_number().
CallGetEventNumber ==
    /\ op = "none"
    /\ \E got \in {GetEventNumber(env, fs)} :
          /\ op' = "get_event_number"
          /\ outcome' = IF got.raised THEN "raised" ELSE "returned"
          /\ returned' = got.number
          /\ UNCHANGED <<loaderVars, reconcilerVars, decisionVars, linkVars,
                         items, calls, raised_at, applied, output, printed>>

NextNumber == CallGetEventNumber

SpecNumber == InitNumber /\ [][NextNumber]_vars

----------------------------------------------------------------------------
(* fetch_linked_items as a state machine. *)

\* The items of the repository: each of #7 and #8 is an issue, a pull request
\* or missing.
LinkedRepositories == [{7, 8} -> {"none", "issue", "pull_request"}]

\* The numbers fetch_linked_items is asked for (#9 is in no repository).
LinkedNumbers == SeqsUpTo({7, 8, 9}, MaxNumbers)

InitFetch ==
    /\ items \in LinkedRepositories
    /\ numbers \in LinkedNumbers
    /\ body = <<>>
    /\ linked = <<>>
    /\ calls = <<>>
    /\ raised_at = ""
    /\ applied = NotApplied
    /\ output = <<>>
    /\ printed = <<>>
    /\ returned = NoneNumber
    /\ outcome = "idle"
    /\ op = "none"
    /\ remote = <<>>
    /\ label_cache = <<>>
    /\ config = <<>>
    /\ include_repo_labels = TRUE
    /\ repo_labels = <<>>
    /\ created = <<>>
    /\ failed = 0
    /\ labels = <<>>
    /\ LoaderIdle
    /\ DecisionIdle

\* A call of fetch_linked_items(gh, numbers) during which the requests at the
\* positions `failing` fail.
CallFetchLinkedItems ==
    /\ op = "none"
    /\ \E failing \in SUBSET DOMAIN numbers :
         \E res \in {FetchLinkedItems(items, numbers, failing, 1)} :
            /\ op' = "fetch_linked_items"
            /\ args' = [failing |-> failing]
            /\ outcome' = IF res.raised THEN "raised" ELSE "returned"
            /\ linked' = res.linked_items
            /\ calls' = <<"get_repo">> \o [i \in DOMAIN numbers |-> "get_issue"]
            /\ UNCHANGED <<env, fs, loaded, body, numbers, items, raised_at, applied,
                           output, printed, returned, reconcilerVars, decisionVars>>

NextFetch == CallFetchLinkedItems

SpecFetch == InitFetch /\ [][NextFetch]_vars

----------------------------------------------------------------------------
(* parse_github_links as a state machine. *)

InitParse ==
    /\ body \in SeqsUpTo(Chars, MaxText)
    /\ numbers = <<>>
    /\ linked = <<>>
    /\ outcome = "idle"
    /\ op = "none"
    /\ remote = <<>>
    /\ label_cache = <<>>
    /\ config = <<>>
    /\ include_repo_labels = TRUE
    /\ repo_labels = <<>>
    /\ created = <<>>
    /\ failed = 0
    /\ labels = <<>>
    /\ LoaderIdle
    /\ DecisionIdle
    /\ RunIdle

\* A call of parse_github_links(body).
CallParseGithubLinks ==
    /\ op = "none"
    /\ op' = "parse_github_links"
    /\ outcome' = "returned"
    /\ numbers' = ParseGithubLinks(body)
    /\ UNCHANGED <<body, linked, reconcilerVars, loaderVars, decisionVars, runVars>>

NextParse == CallParseGithubLinks

SpecParse == InitParse /\ [][NextParse]_vars

----------------------------------------------------------------------------
(* Properties of the reconciler, checked under SpecReconcile. *)

\* The last call was get_available_labels_from_config and it returned.
Reconciled == op = "get_available_labels_from_config" /\ outcome = "returned"

\* The config labels the repository lacks (compared in lower case), in the
\* order the config declares them.
ConfigOnly == SelectSeq(config, LAMBDA c : Lower(c.name) \notin LowerNames(repo_labels))

\* The last config label declared with name n.
LastDeclared(n) ==
    config[CHOOSE j \in DOMAIN config :
              /\ config[j].name = n
              /\ \A k \in DOMAIN config : config[k].name = n => k <= j]

\* The labels the overlay is applied to, by position: the repository's labels
\* followed by the labels created, filtered to the config's names when
\* include_repo_labels is false.
BeforeOverlay ==
    LET working == [i \in 1..(Len(repo_labels) + Len(created)) |->
                       IF i <= Len(repo_labels)
                       THEN [name |-> repo_labels[i].name,
                             description |-> repo_labels[i].description]
                       ELSE created[i - Len(repo_labels)]]
    IN  IF include_repo_labels
        THEN working
        ELSE SelectSeq(working, LAMBDA l : l.name \in ConfigNames(config))

\* C2: with include_repo_labels=False and a config declaring two label names
\* that the repository does not have, the catalog returned has exactly those
\* two names, whatever labels the repository has, and creation of both is
\* requested.
C2_ConfigOnlyCatalog ==
    ( /\ Reconciled
      /\ ~include_repo_labels
      /\ Len(config) = 2
      /\ \A j \in DOMAIN config : Lower(config[j].name) \notin LowerNames(repo_labels) )
    => /\ Names(labels) = Names(config)
       /\ Names(created) = Names(config)

\* C2: a config-only call over a repository with two labels, neither declared.
C2_Witness ==
    /\ Reconciled
    /\ ~include_repo_labels
    /\ Len(config) = 2
    /\ config[1].name # config[2].name
    /\ \A j \in DOMAIN config : Lower(config[j].name) \notin LowerNames(repo_labels)
    /\ Len(repo_labels) = 2
    /\ Len(labels) = 2

\* C4: creation is requested only for config labels whose lower-cased name is
\* not among the lower-cased names of the repository's labels, with the
\* config's description ("" when absent); a call that returns has requested
\* creation of every such config label, in config order, and has each of them
\* in the catalog.
C4_CreationIffMissing ==
    op = "get_available_labels_from_config" =>
        /\ \A i \in DOMAIN created :
              \E j \in DOMAIN config :
                 /\ created[i].name = config[j].name
                 /\ created[i].description =
                       (IF config[j].description = None THEN "" ELSE config[j].description)
                 /\ Lower(config[j].name) \notin LowerNames(repo_labels)
        /\ outcome = "returned" =>
              /\ Names(created) = Names(ConfigOnly)
              /\ \A j \in DOMAIN ConfigOnly :
                    /\ created[j].description =
                          (IF ConfigOnly[j].description = None
                           THEN "" ELSE ConfigOnly[j].description)
                    /\ \E i \in DOMAIN labels : labels[i].name = ConfigOnly[j].name

\* C4: a call that created a label declared without description and left
\* alone a config label the repository has in another letter case.
C4_Witness ==
    /\ Reconciled
    /\ \E j \in DOMAIN config :
          /\ config[j].name \notin Range(Names(repo_labels))
          /\ Lower(config[j].name) \in LowerNames(repo_labels)
    /\ \E i \in DOMAIN created : created[i].description = ""
    /\ \E j \in DOMAIN config : config[j].description = None /\ config[j] \in Range(ConfigOnly)

\* C5 as stated: every catalog label whose name equals a config label's name
\* has the config's description if the config gives one (a non-empty one) and
\* otherwise the description it had, and has the config's instructions (stated
\* of catalogs that hold no name twice).
C5_OverlayEveryDeclaration ==
    (Reconciled /\ CaseDistinct(labels)) =>
        /\ Len(labels) = Len(BeforeOverlay)
        /\ \A i \in DOMAIN labels : \A j \in DOMAIN config :
              labels[i].name = config[j].name =>
                 /\ labels[i].description =
                       (IF Truthy(config[j].description)
                        THEN config[j].description
                        ELSE BeforeOverlay[i].description)
                 /\ labels[i].instructions = config[j].instructions

\* C5 amended: every catalog label whose name equals a config label's name
\* keeps that name, has the description of the last config label declared with
\* that name if that description is not empty and otherwise the description it
\* had before the overlay, and has that config label's instructions.
C5_OverlayLastDeclaration ==
    Reconciled =>
        /\ Len(labels) = Len(BeforeOverlay)
        /\ \A i \in DOMAIN labels :
              /\ labels[i].name = BeforeOverlay[i].name
              /\ labels[i].name \in ConfigNames(config) =>
                    /\ labels[i].description =
                          (IF LastDeclared(labels[i].name).description \notin {None, ""}
                           THEN LastDeclared(labels[i].name).description
                           ELSE BeforeOverlay[i].description)
                    /\ labels[i].instructions = LastDeclared(labels[i].name).instructions

\* C5: a repository label declared twice in the config, with different
\* properties, carries those of the last declaration.
C5_Witness ==
    /\ Reconciled
    /\ Len(config) = 2
    /\ config[1].name = config[2].name
    /\ config[1] # config[2]
    /\ \E i \in DOMAIN labels :
          /\ i <= Len(repo_labels)
          /\ labels[i].name = config[2].name
          /\ labels[i].description = "cfg desc"
          /\ labels[i].description = config[2].description
          /\ labels[i].instructions = config[2].instructions

\* C6: a repository label and a config label whose names differ only in letter
\* case: the catalog entry of the repository label carries the config's
\* description and instructions.
C6_OverlayIgnoresCase ==
    Reconciled =>
        \A i \in DOMAIN labels : \A j \in DOMAIN config :
           ( /\ i <= Len(repo_labels)
             /\ include_repo_labels
             /\ Len(config) = 1
             /\ labels[i].name # config[j].name
             /\ Lower(labels[i].name) = Lower(config[j].name)
             /\ Truthy(config[j].description) )
           => /\ labels[i].description = config[j].description
              /\ labels[i].instructions = config[j].instructions

\* C7: when the repository's label names are pairwise distinct regardless of
\* letter case, so are the names of the catalog returned.
C7_NoDuplicateNames ==
    (Reconciled /\ CaseDistinct(repo_labels)) => CaseDistinct(labels)

\* C8: with include_repo_labels=True the catalog lists the repository's labels
\* in the order the repository returned them, followed by the newly created
\* config-only labels in the order the config declares them.
C8_CatalogOrder ==
    (Reconciled /\ include_repo_labels) =>
        Names(labels) = Names(repo_labels) \o Names(ConfigOnly)

\* C8: two repository labels followed by two created labels.
C8_Witness ==
    /\ Reconciled
    /\ include_repo_labels
    /\ Len(repo_labels) = 2
    /\ Len(created) = 2
    /\ created[1].name # created[2].name
    /\ Len(labels) = 4

\* C9: when a create_label call fails the reconciler does not abort: it
\* returns a catalog that has every config label the repository lacks.
C9_CreateFailureTolerated ==
    (op = "get_available_labels_from_config" /\ failed # 0) =>
        /\ outcome = "returned"
        /\ \A j \in DOMAIN ConfigOnly :
              \E i \in DOMAIN labels : labels[i].name = ConfigOnly[j].name

\* C20: over the calls of get_available_labels_from_config made in one
\* process with the same config, a call never requests creation of a label
\* the repository already has, that is, of a label an earlier call created.
\* (A step that leaves the cache filled and the last operation the reconciler
\* is a call of the reconciler; labels enter the repository only by creation.)
C20_NoRepeatedCreation ==
    [][ (op' = "get_available_labels_from_config" /\ label_cache' # <<>>)
           => \A i \in DOMAIN created' :
                 Lower(created'[i].name) \notin LowerNames(remote) ]_vars

----------------------------------------------------------------------------
\* C21: the cache entry is exactly the label list fetched from the repository
\* when the entry was filled. A step that fills the cache stores the list
\* fetched in that step, and a step that starts and ends with the cache filled
\* leaves the entry as it was: no append made by a caller to the list it was
\* handed reaches the cached list.
C21_CacheEntryIsFetchedList ==
    [][ /\ (label_cache = <<>> /\ label_cache' # <<>>)
            => label_cache'[GITHUB_REPOSITORY] = FetchLabels(remote)
        /\ (label_cache # <<>> /\ label_cache' # <<>>)
            => label_cache' = label_cache ]_vars

----------------------------------------------------------------------------
\* C22: for both values of include_repo_labels, every label the config declares
\* is represented in the catalog get_available_labels_from_config returns: some
\* returned label has the config name up to letter case, also when the
\* repository has the label under a name that differs only in letter case.
C22_ConfigLabelsRepresented ==
    Reconciled =>
        \A i \in DOMAIN config : Lower(config[i].name) \in LowerNames(labels)

----------------------------------------------------------------------------
(* Properties of the configuration loaders, checked under SpecLoad. *)

\* The path the last Config.load opened.
OpenedPath ==
    IF op = "ai.Config.load"
    THEN PathJoin(IF env["GITHUB_WORKSPACE"] = Unset
                  THEN EmptyPath ELSE env["GITHUB_WORKSPACE"],
                  IF env["INPUT_CONFIG-PATH"] = Unset
                  THEN DefaultConfigPath ELSE env["INPUT_CONFIG-PATH"])
    ELSE PathJoin(IF args.workspace_path # NoArg THEN args.workspace_path
                  ELSE IF env["GITHUB_WORKSPACE"] = Unset
                       THEN EmptyPath ELSE env["GITHUB_WORKSPACE"],
                  IF args.config_path # NoArg THEN args.config_path
                  ELSE IF env["INPUT_CONFIG-PATH"] = Unset
                       THEN DefaultConfigPath ELSE env["INPUT_CONFIG-PATH"])

\* C10: Config.load of ai.py and of label_workflow.py, when no file exists at
\* the resolved config path, returns the default config (instructions "",
\* include_repo_labels true, no labels, no context files) and does not raise.
C10_MissingFileGivesDefaults ==
    ( /\ op \in {"ai.Config.load", "label_workflow.Config.load"}
      /\ ~fs[OpenedPath].exists )
    => /\ outcome = "returned"
       /\ loaded.instructions = ""
       /\ loaded.include_repo_labels = TRUE
       /\ loaded.labels = <<>>
       /\ loaded.context_files = <<>>

\* C10: label_workflow.Config.load was given a path with no file while the
\* path the environment names holds a config file.
C10_Witness ==
    /\ op = "label_workflow.Config.load"
    /\ outcome = "returned"
    /\ args.config_path # NoArg
    /\ env["INPUT_CONFIG-PATH"] = Unset
    /\ ~fs[OpenedPath].exists
    /\ fs[PathJoin(EmptyPath, DefaultConfigPath)].exists
    /\ loaded = [instructions |-> "", include_repo_labels |-> TRUE,
                 labels |-> <<>>, context_files |-> <<>>]

\* The document at the path ai.Config.load() opened.
OpenedDoc == YamlSafeLoad(fs[ConfigPathAi(env)].text)

\* An entry of one of the two declared shapes: a bare string, or a single-key
\* mapping whose value is a properties object or null.
DeclaredShape(item) ==
    \/ item.kind = "str"
    \/ /\ item.kind = "map"
       /\ Len(item.pairs) = 1
       /\ item.pairs[1].value.t \in {"dict", "null"}

\* The LabelConfig an entry of a declared shape stands for.
DeclaredLabel(item) ==
    IF item.kind = "str"
    THEN LabelConfig(item.name, None, None)
    ELSE LabelConfig(item.pairs[1].key,
                     item.pairs[1].value.description,
                     item.pairs[1].value.instructions)

\* C11: ai.Config.load turns each entry of the labels list into one
\* LabelConfig, in declaration order: a bare string gives the name alone, a
\* single-key mapping {name: props} gives the key with props' description and
\* instructions, a null props counts as an empty one.
C11_AiLoadParsesDeclaredShapes ==
    ( /\ op = "ai.Config.load"
      /\ fs[ConfigPathAi(env)].exists
      /\ ~OpenedDoc.null
      /\ \A i \in DOMAIN OpenedDoc.labels : DeclaredShape(OpenedDoc.labels[i]) )
    => /\ outcome = "returned"
       /\ loaded.labels =
             [i \in DOMAIN OpenedDoc.labels |-> DeclaredLabel(OpenedDoc.labels[i])]

----------------------------------------------------------------------------
(* Properties of load_context_files, checked under SpecContext. *)

\* The last call was a load_context_files.
ContextLoaded ==
    op \in {"ai.Config.load_context_files", "label_workflow.Config.load_context_files",
            "config_parser.Config.load_context_files"}

\* A root is given: as the argument or by GITHUB_WORKSPACE.
RootGiven == args.workspace_path \notin {NoArg, EmptyPath} \/ env["GITHUB_WORKSPACE"] # Unset

\* The root: the argument, else GITHUB_WORKSPACE, else the current directory.
Root ==
    IF args.workspace_path \notin {NoArg, EmptyPath} THEN args.workspace_path
    ELSE IF env["GITHUB_WORKSPACE"] # Unset THEN env["GITHUB_WORKSPACE"]
    ELSE EmptyPath

\* C12: load_context_files, given a root, returns a mapping whose keys are
\* exactly the declared paths that exist under the root, each mapped to the
\* text of the file there; a declared path that does not exist is omitted and
\* nothing is raised. The versions of ai.py and label_workflow.py take the
\* current directory when no root is given.
C12_ContextFilesThatExist ==
    (ContextLoaded /\ (RootGiven \/ op # "config_parser.Config.load_context_files"))
    => /\ outcome = "returned"
       /\ DOMAIN context.additional_files =
             { p \in Range(loaded.context_files) : fs[PathJoin(Root, p)].exists }
       /\ \A p \in DOMAIN context.additional_files :
             context.additional_files[p] = fs[PathJoin(Root, p)].text

\* C12: the first declared path does not exist under the root, the second
\* does, and the second is loaded under its declared name.
C12_Witness ==
    /\ ContextLoaded
    /\ outcome = "returned"
    /\ Len(loaded.context_files) = 2
    /\ ~fs[PathJoin(Root, loaded.context_files[1])].exists
    /\ fs[PathJoin(Root, loaded.context_files[2])].exists
    /\ Root # EmptyPath
    /\ DOMAIN context.additional_files = {loaded.context_files[2]}
    /\ context.additional_files[loaded.context_files[2]] = "ws style"

----------------------------------------------------------------------------
(* Properties of the decision step, checked under SpecDecide. *)

\* C1: every name in the list labeling_workflow returns is the name of a label
\* of the catalog it was given; an empty catalog yields an empty list.
C1_DecisionWithinCatalog ==
    (op = "labeling_workflow" /\ outcome = "returned") =>
        /\ \A i \in DOMAIN decision :
              \E j \in DOMAIN catalog : decision[i] = catalog[j].name
        /\ catalog = <<>> => decision = <<>>

\* C1: a decision of two labels of a two-label catalog.
C1_Witness ==
    /\ op = "labeling_workflow"
    /\ outcome = "returned"
    /\ Len(catalog) = 2
    /\ Len(decision) = 2
    /\ decision[1] # decision[2]

\* C18: the list labeling_workflow returns is a set: no label name occurs in
\* it more than once.
C18_DecisionHasNoDuplicates ==
    (op = "labeling_workflow" /\ outcome = "returned") =>
        \A i, j \in DOMAIN decision : decision[i] = decision[j] => i = j

\* C19: a label whose instructions say it must never be applied automatically
\* is not in the list labeling_workflow returns.
C19_NeverApplyLabelExcluded ==
    (op = "labeling_workflow" /\ outcome = "returned") =>
        \A i \in DOMAIN decision : \A j \in DOMAIN catalog :
           catalog[j].instructions = NeverApply => decision[i] # catalog[j].name

----------------------------------------------------------------------------
(* Properties of the run, checked under SpecRun. *)

\* The run got as far as handing a catalog to the decision step.
CatalogHanded == op = "run_label_workflow" /\ Passed(raised_at, "item")

\* C3: when the loaded config says include_repo_labels: false, the catalog
\* the run hands to the decision step holds only labels the config declares.
C3_RunHonoursIncludeRepoLabels ==
    (CatalogHanded /\ ~loaded.include_repo_labels)
        => \A i \in DOMAIN catalog : catalog[i].name \in ConfigNames(loaded.labels)

\* No event number is given to the run and none can be resolved: the
\* argument is None, INPUT_EVENT-NUMBER is not set, and GITHUB_EVENT_PATH is
\* not set, names no file, or names a payload without a number.
NoEventNumber ==
    /\ args.event_number = NoneNumber
    /\ env["INPUT_EVENT-NUMBER"] = ""
    /\ \/ env["GITHUB_EVENT_PATH"] = Unset
       \/ ~fs[env["GITHUB_EVENT_PATH"]].exists
       \/ /\ JsonLoad(fs[env["GITHUB_EVENT_PATH"]].text).number = NoneNumber
          /\ JsonLoad(fs[env["GITHUB_EVENT_PATH"]].text).pull_request = NoneNumber
          /\ JsonLoad(fs[env["GITHUB_EVENT_PATH"]].text).issue = NoneNumber

\* C16: a run with no event number ends with an error, and no call to the
\* GitHub interface has been made before it.
C16_NoNumberNoCalls ==
    (op = "run_label_workflow" /\ NoEventNumber)
        => /\ outcome = "raised"
           /\ calls = <<>>

\* The decision step of the run failed: the catalog was handed to
\* labeling_workflow and it raised (its config could not be loaded, the call to
\* the provider failed, or the answer is no list of catalog names).
DecisionFailed ==
    /\ CatalogHanded
    /\ LabelingWorkflow(env, fs, catalog, answer).raised

\* C17: when the decision step fails the run ends with that error:
\* apply_labels is not called (nothing applied, nothing printed, no call to
\* the GitHub interface beyond those of the earlier stages), no line is
\* written to the output file and no list is returned.
C17_DecisionFailureIsTerminal ==
    DecisionFailed =>
        /\ outcome = "raised"
        /\ labels = <<>>
        /\ applied = NotApplied
        /\ printed = <<>>
        /\ Count(calls, "add_to_labels") = 0
        /\ Count(calls, "get_issue") = 1
        /\ Count(calls, "get_repo") = 2 + Len(created)
        /\ output = <<>>

\* C17: the model answered a name that is not in the catalog, in a run that
\* was to apply labels and to write the output line.
C17_Witness ==
    /\ DecisionFailed
    /\ answer.raw = <<"invented">>
    /\ raised_at = "decision"
    /\ ~args.dry_run
    /\ args.github_output # NoArg
    /\ Len(catalog) >= 2

\* The decision step of the run was supplied its bundle and returned.
DecisionSupplied == op = "run_label_workflow" /\ Passed(raised_at, "decision")

\* C25: in a run, the global instructions and the context files the decision
\* step is given are those of the configuration the run loaded from its
\* config_path and github_workspace arguments, the one the catalog was
\* reconciled with.
C25_DecisionUsesRunConfig ==
    DecisionSupplied =>
        /\ context.instructions = loaded.instructions
        /\ context.additional_files
              = LoadContextFilesWorkspace(env, fs, loaded, args.github_workspace).context

----------------------------------------------------------------------------
(* Properties of parse_github_links, checked under SpecParse. *)

\* Position h of the text holds the "#" of a reference #N standing alone:
\* at the start or after whitespace, its digits followed by whitespace or the
\* end.
BareReference(h) ==
    /\ body[h] = "#"
    /\ h = 1 \/ IsSpace(body[h - 1])
    /\ RunEnd(body, h + 1, FALSE) >= h + 1
    /\ \/ RunEnd(body, h + 1, FALSE) = Len(body)
       \/ IsSpace(body[RunEnd(body, h + 1, FALSE) + 1])

\* Position h holds the "#" of a reference repo#N or org/repo#N: a name
\* right before it, digits right after it.
RepoReference(h) ==
    /\ body[h] = "#"
    /\ h > 1 /\ IsWord(body[h - 1])
    /\ RunEnd(body, h + 1, FALSE) >= h + 1

\* The number of the reference whose "#" is at position h.
ReferenceNumber(h) == ToInt(body, h + 1, RunEnd(body, h + 1, FALSE))

\* The list parse_github_links returns is strictly ascending (so it has no
\* duplicates) and holds only numbers the text refers to.
LinksAscending ==
    op = "parse_github_links" =>
        /\ \A i, j \in DOMAIN numbers : i < j => numbers[i] < numbers[j]
        /\ \A i \in DOMAIN numbers :
              \E h \in DOMAIN body :
                 /\ BareReference(h) \/ RepoReference(h)
                 /\ numbers[i] = ReferenceNumber(h)

\* C13: parse_github_links recognizes the references in the text: every
\* reference #N that stands alone in it is in the list returned.
C13_LinksRecognized ==
    op = "parse_github_links" =>
        \A h \in DOMAIN body :
           BareReference(h) => \E i \in DOMAIN numbers : numbers[i] = ReferenceNumber(h)

\* Position g holds the "#" of the bare reference that follows the bare
\* reference at position h after a single whitespace character.
AdjacentReferences(h, g) ==
    /\ BareReference(h)
    /\ BareReference(g)
    /\ g = RunEnd(body, h + 1, FALSE) + 2

\* C24: the list parse_github_links returns holds the number of every bare
\* reference #N delimited by whitespace or by the start or end of the text,
\* and of both references when two of them are separated by a single
\* whitespace character ("#1 #2" gives <<1, 2>>).
C24_AdjacentBareReferences ==
    op = "parse_github_links" =>
        /\ \A h \in DOMAIN body : BareReference(h) => ReferenceNumber(h) \in Range(numbers)
        /\ \A h, g \in DOMAIN body :
              AdjacentReferences(h, g)
                 => {ReferenceNumber(h), ReferenceNumber(g)} \subseteq Range(numbers)
        /\ body = <<"#", "1", " ", "#", "2">> => numbers = <<1, 2>>

----------------------------------------------------------------------------
(* Properties of apply_labels, checked under SpecApply. *)

\* The item apply_labels works on: INPUT_EVENT-NUMBER when it is set, else the
\* number of the event payload.
TargetNumber == GetEventNumber(env, fs).number

\* C14: apply_labels with dry_run=True never calls add_to_labels, and when it
\* returns it has reported exactly the chosen labels; with dry_run=False a
\* call that returns has called add_to_labels exactly once, with the full
\* list of chosen names, on the target item.
C14_DryRunNeverMutates ==
    op = "apply_labels" =>
        /\ args.dry_run =>
              /\ Count(calls, "add_to_labels") = 0
              /\ ~applied.done
              /\ outcome = "returned" =>
                    /\ Len(printed) = 1
                    /\ printed[1].labels = decision
        /\ (~args.dry_run /\ outcome = "returned") =>
              /\ Count(calls, "add_to_labels") = 1
              /\ applied.done
              /\ applied.labels = decision
              /\ applied.number = TargetNumber
              /\ printed = <<>>

\* C14: a dry run that reported two chosen labels for an item that exists.
C14_WitnessDryRun ==
    /\ op = "apply_labels"
    /\ outcome = "returned"
    /\ args.dry_run
    /\ Len(decision) = 2
    /\ HasItem(items, TargetNumber)
    /\ printed = <<DryRunLine(decision, TargetNumber)>>

----------------------------------------------------------------------------
(* Properties of fetch_linked_items, checked under SpecFetch. *)

\* The positions of the input whose fetch succeeded.
Fetched == { i \in DOMAIN numbers : FetchSucceeds(items, numbers, args.failing, i) }

\* The k-th of these positions.
FetchedAt(k) == CHOOSE i \in Fetched : Cardinality({ j \in Fetched : j < i }) = k - 1

\* C15: fetch_linked_items never aborts: it returns the LinkedItems of exactly
\* the numbers whose fetch succeeded, in input order, and omits each number
\* whose fetch raised.
C15_FailedFetchesSkipped ==
    op = "fetch_linked_items" =>
        /\ outcome = "returned"
        /\ Len(linked) = Cardinality(Fetched)
        /\ \A k \in DOMAIN linked :
              /\ linked[k].number = numbers[FetchedAt(k)]
              /\ linked[k].type = items[numbers[FetchedAt(k)]]

\* C15: of three numbers the second could not be fetched; the first and the
\* third are returned.
C15_Witness ==
    /\ op = "fetch_linked_items"
    /\ outcome = "returned"
    /\ Len(numbers) = 3
    /\ Fetched = {1, 3}
    /\ numbers[1] # numbers[3]
    /\ Len(linked) = 2
    /\ linked[1].number = numbers[1]
    /\ linked[2].number = numbers[3]

----------------------------------------------------------------------------
(* Properties of get_event_number, checked under SpecNumber. *)

\* The event payload get_event_number opens.
Payload == JsonLoad(fs[EventPath].text)

\* INPUT_EVENT-NUMBER is unset and the payload that is read carries no number
\* at top level, under pull_request or under issue.
NoNumberAnywhere ==
    /\ env["INPUT_EVENT-NUMBER"] = ""
    /\ env["GITHUB_EVENT_PATH"] = EventPath
    /\ fs[EventPath].exists
    /\ ~NumberTruthy(Payload.number)
    /\ ~NumberTruthy(Payload.pull_request)
    /\ ~NumberTruthy(Payload.issue)

\* C23: get_event_number returns an integer or raises. When INPUT_EVENT-NUMBER
\* is unset and the payload carries no number it raises; when
\* INPUT_EVENT-NUMBER is set the call returns that number, whatever the payload.
C23_NumberOrRaise ==
    op = "get_event_number" =>
        /\ outcome = "returned" => ~returned.none
        /\ NoNumberAnywhere => outcome = "raised"
        /\ env["INPUT_EVENT-NUMBER"] # ""
              => /\ outcome = "returned"
                 /\ returned = Number(ParseInt(env["INPUT_EVENT-NUMBER"]))

=============================================================================
